---- MODULE Spec2Model ----
(***************************************************************************)
(* Model of the omniscient command store: the SQLite table `commands`      *)
(* (storage.rs), the capture pipeline (capture.rs, redact.rs, category.rs) *)
(* and export/import (export.rs).                                          *)
(*                                                                         *)
(* Text is modelled as sequences of one-character strings, so that trim,   *)
(* case-insensitive pattern matching, tokenisation and quoting are         *)
(* computed character by character as the code computes them.              *)
(***************************************************************************)
EXTENDS Integers, Sequences, FiniteSets, TLC

VARIABLES
    store,    \* the database the CLI works on: [rows, seq]
    now,      \* the wall clock read by Utc::now()
    ret,      \* what the last operation returned, and the path it took
    file,     \* the snapshot file written by export (SpecRoundTrip)
    target,   \* the database of the machine the snapshot is taken to (SpecRoundTrip)
    captured, \* per (command, working_dir): the accepted capture calls (SpecCapture)
    session   \* per shell session: where its capture process stands (SpecSessions)

vars == <<store, now, ret, file, target, captured, session>>

----------------------------------------------------------------------------
(* Bounds of the model. *)

MaxRecords == 2
MaxTime == 1
MaxUsage == 2
MaxSnapshot == 2
MaxPhraseLen == 4
MaxSessionUsage == 3

----------------------------------------------------------------------------
(* Text helpers. *)

None == <<>>
Some(x) == <<x>>

\* mutant: only the space is trimmed (trim_matches(' ') for trim())
IsWhitespace_space_only(c) == c = " "

IsWhitespace(c) == c \in {" ", "\t"}

RECURSIVE trim_start(_)
trim_start(s) ==
    IF s = <<>> THEN s
    ELSE IF IsWhitespace(Head(s)) THEN trim_start(Tail(s)) ELSE s

RECURSIVE trim_end(_)
trim_end(s) ==
    IF s = <<>> THEN s
    ELSE IF IsWhitespace(s[Len(s)]) THEN trim_end(SubSeq(s, 1, Len(s) - 1)) ELSE s

trim(s) == trim_end(trim_start(s))

UpperToLower == [c \in {"A", "C", "D", "E", "L", "P", "R", "S", "T"} |->
    CASE c = "A" -> "a" [] c = "C" -> "c" [] c = "D" -> "d" [] c = "E" -> "e"
      [] c = "L" -> "l" [] c = "P" -> "p" [] c = "R" -> "r" [] c = "S" -> "s"
      [] c = "T" -> "t"]

to_lowercase(c) == IF c \in DOMAIN UpperToLower THEN UpperToLower[c] ELSE c

Fold(c, case_insensitive) == IF case_insensitive THEN to_lowercase(c) ELSE c

\* s contains t as a contiguous substring
Contains(s, t, case_insensitive) ==
    \E i \in 0..(Len(s) - Len(t)) :
        \A j \in 1..Len(t) : Fold(s[i + j], case_insensitive) = Fold(t[j], case_insensitive)

----------------------------------------------------------------------------
(* Redaction (redact.rs). A pattern is a literal; Regex::new("(?i)" + p)   *)
(* makes the match case-insensitive and unanchored.                        *)

REDACTED == <<"[", "R", "E", "D", "A", "C", "T", "E", "D", "]">>

\* mutant: the pattern is compiled without "(?i)"
is_match_case_sensitive(pattern, command) == Contains(command, pattern, FALSE)

is_match(pattern, command) == Contains(command, pattern, TRUE)

should_redact(engine, command) ==
    IF ~engine.enabled THEN FALSE
    ELSE \E k \in 1..Len(engine.patterns) : is_match(engine.patterns[k], command)

redact(engine, command) ==
    IF should_redact(engine, command) THEN REDACTED ELSE command

----------------------------------------------------------------------------
(* Categorisation (category.rs). *)

RECURSIVE first_word(_)
first_word(s) ==
    IF s = <<>> \/ IsWhitespace(Head(s)) THEN <<>>
    ELSE <<Head(s)>> \o first_word(Tail(s))

\* rsplit('/').next(): the part after the last '/'
RECURSIVE after_last_slash(_)
after_last_slash(s) ==
    IF \A i \in 1..Len(s) : s[i] # "/" THEN s
    ELSE after_last_slash(Tail(s))

rules(cmd_name) ==
    CASE cmd_name \in {<<"l", "s">>, <<"c", "d">>, <<"r", "m">>} -> "file"
      [] cmd_name \in {<<"g", "h">>} -> "git"
      [] cmd_name \in {<<"p", "s">>, <<"d", "f">>} -> "system"
      [] OTHER -> "other"

categorize(command) == rules(after_last_slash(first_word(trim_start(command))))

----------------------------------------------------------------------------
(* Timestamps. A DateTime<Utc> is a clock reading; the TEXT column holds   *)
(* its RFC 3339 rendering.                                                 *)

to_rfc3339(t) == <<"rfc3339", t>>
parse_rfc3339(s) == s[2]

----------------------------------------------------------------------------
(* models.rs *)

\* mutant: the count starts at 0 and the first increment makes it 1
CommandRecord_new_zero(command, timestamp, exit_code, duration_ms, working_dir, category) ==
    [id |-> None, command |-> command, timestamp |-> timestamp,
     exit_code |-> exit_code, duration_ms |-> duration_ms,
     working_dir |-> working_dir, category |-> category,
     usage_count |-> 0, last_used |-> timestamp]

CommandRecord_new(command, timestamp, exit_code, duration_ms, working_dir, category) ==
    [id |-> None, command |-> command, timestamp |-> timestamp,
     exit_code |-> exit_code, duration_ms |-> duration_ms,
     working_dir |-> working_dir, category |-> category,
     usage_count |-> 1, last_used |-> timestamp]

----------------------------------------------------------------------------
(* storage.rs: the table and its primitives. *)

EmptyDb == [rows |-> <<>>, seq |-> 0]

RowToRecord(row) ==
    [id |-> Some(row.id), command |-> row.command,
     timestamp |-> parse_rfc3339(row.timestamp),
     exit_code |-> row.exit_code, duration_ms |-> row.duration_ms,
     working_dir |-> row.working_dir, category |-> row.category,
     usage_count |-> row.usage_count,
     last_used |-> parse_rfc3339(row.last_used)]

\* mutant: usage_count is left to the column's DEFAULT 1
insert_default_usage(db, cmd) ==
    [rows |-> Append(db.rows,
        [id |-> db.seq + 1, command |-> cmd.command,
         timestamp |-> to_rfc3339(cmd.timestamp),
         exit_code |-> cmd.exit_code, duration_ms |-> cmd.duration_ms,
         working_dir |-> cmd.working_dir, category |-> cmd.category,
         usage_count |-> 1,
         last_used |-> to_rfc3339(cmd.last_used)]),
     seq |-> db.seq + 1]

\* mutant: the pair is UNIQUE in the schema and the statement INSERT OR IGNORE
insert_unique_pair(db, cmd) ==
    IF \E i \in 1..Len(db.rows) : /\ db.rows[i].command = cmd.command
                                  /\ db.rows[i].working_dir = cmd.working_dir
    THEN db
    ELSE [rows |-> Append(db.rows,
            [id |-> db.seq + 1, command |-> cmd.command,
             timestamp |-> to_rfc3339(cmd.timestamp),
             exit_code |-> cmd.exit_code, duration_ms |-> cmd.duration_ms,
             working_dir |-> cmd.working_dir, category |-> cmd.category,
             usage_count |-> cmd.usage_count,
             last_used |-> to_rfc3339(cmd.last_used)]),
          seq |-> db.seq + 1]

insert(db, cmd) ==
    [rows |-> Append(db.rows,
        [id |-> db.seq + 1, command |-> cmd.command,
         timestamp |-> to_rfc3339(cmd.timestamp),
         exit_code |-> cmd.exit_code, duration_ms |-> cmd.duration_ms,
         working_dir |-> cmd.working_dir, category |-> cmd.category,
         usage_count |-> cmd.usage_count,
         last_used |-> to_rfc3339(cmd.last_used)]),
     seq |-> db.seq + 1]

\* mutant: WHERE command = ?1 AND working_dir = ?1
find_duplicate_same_placeholder(db, command, working_dir) ==
    LET hits == {i \in 1..Len(db.rows) :
                    /\ db.rows[i].command = command
                    /\ db.rows[i].working_dir = command}
    IN IF hits = {} THEN None
       ELSE Some(RowToRecord(db.rows[CHOOSE i \in hits : \A j \in hits : i <= j]))

\* WHERE command = ?1 AND working_dir = ?2 LIMIT 1
find_duplicate(db, command, working_dir) ==
    LET hits == {i \in 1..Len(db.rows) :
                    /\ db.rows[i].command = command
                    /\ db.rows[i].working_dir = working_dir}
    IN IF hits = {} THEN None
       ELSE Some(RowToRecord(db.rows[CHOOSE i \in hits : \A j \in hits : i <= j]))

\* mutant: UPDATE commands SET last_used = ?1 WHERE id = ?2
increment_usage_touch_only(db, id, t) ==
    [db EXCEPT !.rows = [i \in 1..Len(db.rows) |->
        IF db.rows[i].id = id
        THEN [db.rows[i] EXCEPT !.last_used = to_rfc3339(t)]
        ELSE db.rows[i]]]

\* mutant: UPDATE commands SET usage_count = usage_count + 1, timestamp = ?1,
\* last_used = ?1 WHERE id = ?2
increment_usage_sets_timestamp(db, id, t) ==
    [db EXCEPT !.rows = [i \in 1..Len(db.rows) |->
        IF db.rows[i].id = id
        THEN [db.rows[i] EXCEPT !.usage_count = @ + 1,
                                !.timestamp = to_rfc3339(t),
                                !.last_used = to_rfc3339(t)]
        ELSE db.rows[i]]]

\* mutant: UPDATE commands SET usage_count = usage_count + 1, last_used = ?1
increment_usage_no_where(db, id, t) ==
    [db EXCEPT !.rows = [i \in 1..Len(db.rows) |->
        [db.rows[i] EXCEPT !.usage_count = @ + 1, !.last_used = to_rfc3339(t)]]]

\* UPDATE commands SET usage_count = usage_count + 1, last_used = ?1 WHERE id = ?2
increment_usage(db, id, t) ==
    [db EXCEPT !.rows = [i \in 1..Len(db.rows) |->
        IF db.rows[i].id = id
        THEN [db.rows[i] EXCEPT !.usage_count = @ + 1, !.last_used = to_rfc3339(t)]
        ELSE db.rows[i]]]

\* the Result of Storage::increment_usage: conn.execute(..)? and then Ok(()).
\* The number of rows the UPDATE changed is not looked at; `fault` is an
\* error of the statement itself.
increment_usage_result(db, id, t, fault) ==
    IF fault THEN [ok |-> FALSE, db |-> db]
    ELSE [ok |-> TRUE, db |-> increment_usage(db, id, t)]

----------------------------------------------------------------------------
(* capture.rs: CommandCapture::capture. `cwd` is what env::current_dir()   *)
(* gave (None when it failed), `t` the clock reading of Utc::now().        *)
(* `fault` names a store call that fails with an I/O error: "none",        *)
(* "find" (find_duplicate) or "write" (insert / increment_usage).          *)

UNKNOWN_DIR == <<"/", "u", "n", "k", "n", "o", "w", "n">>

NewEngine(config) ==
    [patterns |-> config.privacy.redact_patterns, enabled |-> config.privacy.enabled]

capture(db, config, raw_command, exit_code, duration_ms, cwd, t, fault) ==
    LET command == trim(raw_command)
        processed_command == redact(NewEngine(config), command)
        working_dir == IF cwd = None THEN UNKNOWN_DIR ELSE cwd[1]
        category == categorize(processed_command)
        existing == find_duplicate(db, processed_command, working_dir)
    IN IF command = <<>>
       THEN [db |-> db, ok |-> TRUE, path |-> "empty"]
       ELSE IF duration_ms < config.capture.min_duration_ms
       THEN [db |-> db, ok |-> TRUE, path |-> "below_min_duration"]
       ELSE IF processed_command = REDACTED
       THEN [db |-> db, ok |-> TRUE, path |-> "redacted"]
       ELSE IF fault = "find"
       THEN [db |-> db, ok |-> FALSE, path |-> "find_duplicate_failed"]
       ELSE IF existing # None
       THEN IF fault = "write"
            THEN [db |-> db, ok |-> FALSE, path |-> "increment_failed"]
            ELSE [db |-> increment_usage(db, existing[1].id[1], t),
                  ok |-> TRUE, path |-> "incremented"]
       ELSE IF fault = "write"
            THEN [db |-> db, ok |-> FALSE, path |-> "insert_failed"]
            ELSE [db |-> insert(db, CommandRecord_new(processed_command, t,
                                    exit_code, duration_ms, working_dir, category)),
                  ok |-> TRUE, path |-> "inserted"]

\* main.rs, Commands::Capture: CommandCapture::new(config)? and then the
\* capture call, whose error is printed and dropped. `fault` is "open" when
\* the database cannot be opened, or a fault of capture. exit_ok: whether
\* main returns Ok(()) to the shell.
main_capture(db, config, raw_command, exit_code, duration_ms, cwd, t, fault) ==
    IF fault = "open"
    THEN [db |-> db, exit_ok |-> FALSE, path |-> "open_failed"]
    ELSE LET r == capture(db, config, raw_command, exit_code, duration_ms, cwd, t, fault)
         IN [db |-> r.db, exit_ok |-> TRUE, path |-> r.path]

\* capture up to and including its find_duplicate call: the early return
\* taken ("looked" when none is), and the locals the rest of the call uses
capture_lookup(db, config, raw_command, duration_ms, cwd) ==
    LET command == trim(raw_command)
        processed_command == redact(NewEngine(config), command)
        working_dir == IF cwd = None THEN UNKNOWN_DIR ELSE cwd[1]
    IN [path |-> IF command = <<>> THEN "empty"
                 ELSE IF duration_ms < config.capture.min_duration_ms
                 THEN "below_min_duration"
                 ELSE IF processed_command = REDACTED THEN "redacted"
                 ELSE "looked",
        processed_command |-> processed_command,
        working_dir |-> working_dir,
        category |-> categorize(processed_command),
        existing |-> find_duplicate(db, processed_command, working_dir)]

\* mutant: the increment writes back the count the lookup saw, plus one
capture_write_stale(db, looked, exit_code, duration_ms, t) ==
    IF looked.existing # None
    THEN [db |-> [db EXCEPT !.rows = [i \in 1..Len(db.rows) |->
                    IF db.rows[i].id = looked.existing[1].id[1]
                    THEN [db.rows[i] EXCEPT
                            !.usage_count = looked.existing[1].usage_count + 1,
                            !.last_used = to_rfc3339(t)]
                    ELSE db.rows[i]]],
          ok |-> TRUE, path |-> "incremented"]
    ELSE [db |-> insert(db, CommandRecord_new(looked.processed_command, t, exit_code,
                            duration_ms, looked.working_dir, looked.category)),
          ok |-> TRUE, path |-> "inserted"]

\* capture after find_duplicate has returned: the increment or the insert,
\* decided by what the lookup saw, run on the database as it is now
capture_write(db, looked, exit_code, duration_ms, t) ==
    IF looked.existing # None
    THEN [db |-> increment_usage(db, looked.existing[1].id[1], t),
          ok |-> TRUE, path |-> "incremented"]
    ELSE [db |-> insert(db, CommandRecord_new(looked.processed_command, t, exit_code,
                            duration_ms, looked.working_dir, looked.category)),
          ok |-> TRUE, path |-> "inserted"]

----------------------------------------------------------------------------
(* export.rs: the snapshot document, Exporter::export and Importer::import. *)

EXPORT_VERSION == <<"1", ".", "0">>

\* serde: a CommandRecord as a JSON object (DateTime as an RFC 3339 string)
RecordToJson(r) ==
    [r EXCEPT !.timestamp = to_rfc3339(r.timestamp),
              !.last_used = to_rfc3339(r.last_used)]

RecordFromJson(j) ==
    [j EXCEPT !.timestamp = parse_rfc3339(j.timestamp),
              !.last_used = parse_rfc3339(j.last_used)]

to_string_pretty(data) ==
    [data EXCEPT !.commands = [i \in 1..Len(data.commands) |->
                                  RecordToJson(data.commands[i])]]

from_str(json) ==
    [json EXCEPT !.commands = [i \in 1..Len(json.commands) |->
                                  RecordFromJson(json.commands[i])]]

\* ORDER BY: whether row a must come before row b
Before(order, a, b) ==
    CASE order = "timestamp ASC" ->
            parse_rfc3339(a.timestamp) < parse_rfc3339(b.timestamp)
      [] order = "timestamp DESC" ->
            parse_rfc3339(a.timestamp) > parse_rfc3339(b.timestamp)
      [] order = "usage_count DESC, timestamp DESC" ->
            \/ a.usage_count > b.usage_count
            \/ /\ a.usage_count = b.usage_count
               /\ parse_rfc3339(a.timestamp) > parse_rfc3339(b.timestamp)
      [] order = "count DESC" -> a.count > b.count

\* the orders ORDER BY can return `rows` in: every arrangement in which no
\* row comes before a row that the order puts strictly ahead of it (rows
\* that tie come in any order)
Arrangements(rows, order) ==
    LET n == Len(rows)
        perms == {p \in [1..n -> 1..n] : \A i, j \in 1..n : i # j => p[i] # p[j]}
    IN {[i \in 1..n |-> rows[p[i]]] : p \in
           {q \in perms : \A i, j \in 1..n :
               i < j => ~Before(order, rows[q[j]], rows[q[i]])}}

\* SELECT ... FROM commands ORDER BY timestamp ASC
get_all(db) ==
    {[i \in 1..Len(rs) |-> RowToRecord(rs[i])] :
        rs \in Arrangements(db.rows, "timestamp ASC")}

\* the documents export can write for `db` at time t
export(db, t) ==
    {to_string_pretty([version |-> EXPORT_VERSION, exported_at |-> to_rfc3339(t),
                       command_count |-> Len(commands), commands |-> commands]) :
        commands \in get_all(db)}

update_usage_count(db, id, new_count, t) == increment_usage(db, id, t)

\* mutant: the Skip arm refreshes the existing record as the other arms do
reconcile_skip_touches(db, existing, cmd, strategy, t) ==
    CASE strategy = "Skip" ->
            [db |-> increment_usage(db, existing.id[1], t), counter |-> "skipped"]
      [] strategy = "UpdateUsage" ->
            [db |-> increment_usage(db, existing.id[1], t), counter |-> "updated"]
      [] strategy = "PreserveHigher" ->
            IF cmd.usage_count > existing.usage_count
            THEN [db |-> increment_usage(db, existing.id[1], t), counter |-> "updated"]
            ELSE [db |-> db, counter |-> "skipped"]

\* mutant: PreserveHigher takes the higher count over by deleting the
\* existing row and inserting the incoming record
reconcile_replace_row(db, existing, cmd, strategy, t) ==
    CASE strategy = "Skip" -> [db |-> db, counter |-> "skipped"]
      [] strategy = "UpdateUsage" ->
            [db |-> update_usage_count(db, existing.id[1],
                        existing.usage_count + cmd.usage_count, t),
             counter |-> "updated"]
      [] strategy = "PreserveHigher" ->
            IF cmd.usage_count > existing.usage_count
            THEN [db |-> insert([db EXCEPT !.rows =
                                    SelectSeq(db.rows, LAMBDA r : r.id # existing.id[1])],
                                cmd),
                  counter |-> "updated"]
            ELSE [db |-> db, counter |-> "skipped"]

\* the match on self.strategy for a record that has a duplicate: the
\* database afterwards and the counter of ImportStats that is bumped
reconcile(db, existing, cmd, strategy, t) ==
    CASE strategy = "Skip" -> [db |-> db, counter |-> "skipped"]
      [] strategy = "UpdateUsage" ->
            [db |-> update_usage_count(db, existing.id[1],
                        existing.usage_count + cmd.usage_count, t),
             counter |-> "updated"]
      [] strategy = "PreserveHigher" ->
            IF cmd.usage_count > existing.usage_count
            THEN [db |-> update_usage_count(db, existing.id[1], cmd.usage_count, t),
                  counter |-> "updated"]
            ELSE [db |-> db, counter |-> "skipped"]

NoStats == [total_commands |-> 0, imported |-> 0, skipped |-> 0, updated |-> 0]

\* the loop over export_data.commands from the i-th record on. `fail_at` is
\* the record at which a store call fails (0: none): the `?` returns the
\* error, the stats are dropped, the database stays as the loop left it.
RECURSIVE import_loop(_, _, _, _, _, _, _)
import_loop(db, commands, i, stats, strategy, t, fail_at) ==
    IF i > Len(commands) THEN [ok |-> TRUE, db |-> db, stats |-> stats]
    ELSE IF i = fail_at THEN [ok |-> FALSE, db |-> db, stats |-> NoStats]
    ELSE
      LET cmd == commands[i]
          duplicate == find_duplicate(db, cmd.command, cmd.working_dir)
      IN IF duplicate = None
         THEN import_loop(insert(db, cmd), commands, i + 1,
                  [stats EXCEPT !.imported = @ + 1], strategy, t, fail_at)
         ELSE LET r == reconcile(db, duplicate[1], cmd, strategy, t)
              IN import_loop(r.db, commands, i + 1,
                     [stats EXCEPT ![r.counter] = @ + 1], strategy, t, fail_at)

\* mutant: the loop runs in a transaction that an error rolls back
import_in_transaction(db, json, strategy, t, fail_at) ==
    LET export_data == from_str(json)
        r == import_loop(db, export_data.commands, 1,
                [total_commands |-> export_data.command_count,
                 imported |-> 0, skipped |-> 0, updated |-> 0],
                strategy, t, fail_at)
    IN IF export_data.version = <<>>
       THEN [ok |-> FALSE, db |-> db, stats |-> NoStats]
       ELSE IF r.ok THEN r ELSE [r EXCEPT !.db = db]

\* mutant: only the version this build writes is accepted
import_strict_version(db, json, strategy, t, fail_at) ==
    LET export_data == from_str(json)
    IN IF export_data.version # EXPORT_VERSION
       THEN [ok |-> FALSE, db |-> db, stats |-> NoStats]
       ELSE import_loop(db, export_data.commands, 1,
                [total_commands |-> export_data.command_count,
                 imported |-> 0, skipped |-> 0, updated |-> 0],
                strategy, t, fail_at)

\* `json` is the parsed-able document read from input_path
import(db, json, strategy, t, fail_at) ==
    LET export_data == from_str(json)
    IN IF export_data.version = <<>>
       THEN [ok |-> FALSE, db |-> db, stats |-> NoStats]
       ELSE import_loop(db, export_data.commands, 1,
                [total_commands |-> export_data.command_count,
                 imported |-> 0, skipped |-> 0, updated |-> 0],
                strategy, t, fail_at)

----------------------------------------------------------------------------
(* storage.rs: search. The FTS5 table commands_fts indexes `command` with  *)
(* the default unicode61 tokenizer: tokens are the maximal runs of letters *)
(* and digits, folded to lower case; a quoted string in a MATCH expression *)
(* is a phrase, matched token by token.                                    *)

QUOTE == "\""

RECURSIVE replace_quotes(_)
replace_quotes(q) ==
    IF q = <<>> THEN <<>>
    ELSE IF Head(q) = QUOTE THEN <<QUOTE, QUOTE>> \o replace_quotes(Tail(q))
    ELSE <<Head(q)>> \o replace_quotes(Tail(q))

\* mutant: the phrase is wrapped in quotes as it is
sanitize_fts5_query_no_escape(query) == <<QUOTE>> \o query \o <<QUOTE>>

sanitize_fts5_query(query) == <<QUOTE>> \o replace_quotes(query) \o <<QUOTE>>

\* the text of a string literal's body up to its closing quote, and what follows
RECURSIVE fts5_string_body(_)
fts5_string_body(s) ==
    IF s = <<>> THEN [closed |-> FALSE, text |-> <<>>, rest |-> <<>>]
    ELSE IF Head(s) = QUOTE
    THEN IF Len(s) >= 2 /\ s[2] = QUOTE
         THEN LET r == fts5_string_body(Tail(Tail(s)))
              IN [r EXCEPT !.text = <<QUOTE>> \o @]
         ELSE [closed |-> TRUE, text |-> <<>>, rest |-> Tail(s)]
    ELSE LET r == fts5_string_body(Tail(s))
         IN [r EXCEPT !.text = <<Head(s)>> \o @]

\* a MATCH expression that is one quoted string: Some(phrase text); anything
\* else is taken to be rejected by the FTS5 parser: None
fts5_parse(expr) ==
    IF expr = <<>> \/ Head(expr) # QUOTE THEN None
    ELSE LET b == fts5_string_body(Tail(expr))
         IN IF b.closed /\ b.rest = <<>> THEN Some(b.text) ELSE None

Alnum == {"a", "c", "d", "e", "f", "g", "h", "k", "l", "m", "n", "o", "p", "r",
          "s", "t", "u", "w", "A", "C", "D", "E", "L", "P", "R", "S", "T",
          "0", "1", "2", "3", "4", "9"}

RECURSIVE tokenize_from(_, _)
tokenize_from(s, cur) ==
    IF s = <<>> THEN (IF cur = <<>> THEN <<>> ELSE <<cur>>)
    ELSE IF Head(s) \in Alnum
    THEN tokenize_from(Tail(s), Append(cur, to_lowercase(Head(s))))
    ELSE (IF cur = <<>> THEN <<>> ELSE <<cur>>) \o tokenize_from(Tail(s), <<>>)

tokenize(s) == tokenize_from(s, <<>>)

fts5_phrase_match(command, phrase) ==
    LET doc == tokenize(command)
        want == tokenize(phrase)
    IN /\ want # <<>>
       /\ \E i \in 0..(Len(doc) - Len(want)) : SubSeq(doc, i + 1, i + Len(want)) = want

\* SQLite's LIKE: % is any run of characters, _ any one character, ASCII
\* letters compare case-insensitively
RECURSIVE like(_, _)
like(s, pattern) ==
    IF pattern = <<>> THEN s = <<>>
    ELSE IF Head(pattern) = "%"
    THEN like(s, Tail(pattern)) \/ (s # <<>> /\ like(Tail(s), pattern))
    ELSE /\ s # <<>>
         /\ Head(pattern) = "_" \/ to_lowercase(Head(pattern)) = to_lowercase(Head(s))
         /\ like(Tail(s), Tail(pattern))

\* the WHERE terms search and search_with_like share
FilterTerms(row, query) ==
    /\ query.category # None => row.category = query.category[1]
    /\ query.success_only # None =>
          IF query.success_only[1] THEN row.exit_code = 0 ELSE row.exit_code # 0
    /\ query.working_dir # None =>
          IF query.recursive
          THEN like(row.working_dir, query.working_dir[1] \o <<"%">>)
          ELSE row.working_dir = query.working_dir[1]

\* mutant: Relevance is given no clause of its own and falls to the default
OrderByClause_relevance_by_time(order_by) ==
    IF order_by = "UsageCount" THEN "usage_count DESC, timestamp DESC"
    ELSE "timestamp DESC"

\* the match on query.order_by
OrderByClause(order_by) ==
    IF order_by = "Timestamp" THEN "timestamp DESC"
    ELSE "usage_count DESC, timestamp DESC"

\* mutant: the LIMIT clause is not appended
Select_no_limit(db, kept, query) ==
    LET n == Cardinality(kept)
        asSeq == CHOOSE sq \in [1..n -> kept] : \A k \in kept : \E i \in 1..n : sq[i] = k
        orders == Arrangements([i \in 1..n |-> db.rows[asSeq[i]]],
                               OrderByClause(query.order_by))
    IN {[i \in 1..Len(o) |-> RowToRecord(o[i])] : o \in orders}

\* the rows of `db` at the indexes `kept`, put through ORDER BY and LIMIT:
\* the set of sequences the statement can return
Select(db, kept, query) ==
    LET n == Cardinality(kept)
        asSeq == CHOOSE sq \in [1..n -> kept] : \A k \in kept : \E i \in 1..n : sq[i] = k
        orders == Arrangements([i \in 1..n |-> db.rows[asSeq[i]]],
                               OrderByClause(query.order_by))
    IN {[i \in 1..(IF query.limit < Len(o) THEN query.limit ELSE Len(o)) |->
            RowToRecord(o[i])] : o \in orders}

search_with_like(db, query, text) ==
    LET kept == {i \in 1..Len(db.rows) :
                    /\ like(db.rows[i].command, <<"%">> \o text \o <<"%">>)
                    /\ FilterTerms(db.rows[i], query)}
    IN {[ok |-> TRUE, rows |-> rs] : rs \in Select(db, kept, query)}

\* `fault` is the stage at which the statement using the text index fails:
\* "none", "prepare" (conn.prepare), "query" (stmt.query_map) or "rows"
\* (while the rows are collected)
search(db, query, fault) ==
    LET parsed == IF query.text = None THEN None
                  ELSE fts5_parse(sanitize_fts5_query(query.text[1]))
        kept == {i \in 1..Len(db.rows) :
                    /\ FilterTerms(db.rows[i], query)
                    /\ query.text # None =>
                          fts5_phrase_match(db.rows[i].command, parsed[1])}
        \* the FTS5 parser runs when the statement is first stepped
        rowsFail == fault = "rows" \/ (query.text # None /\ parsed = None)
    IN IF fault = "prepare"
       THEN IF query.text # None THEN search_with_like(db, query, query.text[1])
            ELSE {[ok |-> FALSE, rows |-> <<>>]}
       ELSE IF fault = "query"
       THEN IF query.text # None THEN search_with_like(db, query, query.text[1])
            ELSE {[ok |-> FALSE, rows |-> <<>>]}
       ELSE IF rowsFail THEN {[ok |-> FALSE, rows |-> <<>>]}
       ELSE {[ok |-> TRUE, rows |-> rs] : rs \in Select(db, kept, query)}

----------------------------------------------------------------------------
(* storage.rs: get_recent, get_top, get_by_category, get_stats; models.rs: *)
(* Stats::success_rate.                                                    *)

get_recent(db, limit, working_dir, recursive) ==
    search(db, [text |-> None, category |-> None, success_only |-> None,
                working_dir |-> working_dir, recursive |-> recursive,
                limit |-> limit, order_by |-> "Timestamp"], "none")

get_top(db, limit, working_dir, recursive) ==
    search(db, [text |-> None, category |-> None, success_only |-> None,
                working_dir |-> working_dir, recursive |-> recursive,
                limit |-> limit, order_by |-> "UsageCount"], "none")

get_by_category(db, category, limit, working_dir, recursive) ==
    search(db, [text |-> None, category |-> Some(category), success_only |-> None,
                working_dir |-> working_dir, recursive |-> recursive,
                limit |-> limit, order_by |-> "UsageCount"], "none")

\* SELECT COUNT(*) FROM commands [WHERE ..]
CountRows(db, exit_codes) ==
    Cardinality({i \in 1..Len(db.rows) : db.rows[i].exit_code \in exit_codes})

\* SELECT category, COUNT(*) as count FROM commands GROUP BY category
GroupByCategory(db) ==
    LET cats == {db.rows[i].category : i \in 1..Len(db.rows)}
        n == Cardinality(cats)
        asSeq == CHOOSE sq \in [1..n -> cats] : \A c \in cats : \E i \in 1..n : sq[i] = c
    IN [i \in 1..n |->
           [category |-> asSeq[i],
            count |-> Cardinality({k \in 1..Len(db.rows) :
                                      db.rows[k].category = asSeq[i]})]]

\* SELECT timestamp FROM commands ORDER BY timestamp <dir> LIMIT 1, parsed
EdgeTimestamp(db, order) ==
    IF db.rows = <<>> THEN None
    ELSE Some(parse_rfc3339(
            (CHOOSE rs \in Arrangements(db.rows, order) : TRUE)[1].timestamp))

\* mutant: total_commands from SELECT SUM(usage_count) FROM commands
get_stats_total_by_usage(db) ==
    LET RECURSIVE Sum(_)
        Sum(i) == IF i = 0 THEN 0 ELSE db.rows[i].usage_count + Sum(i - 1)
        total_commands == Sum(Len(db.rows))
        successful_commands == CountRows(db, {0})
    IN {[total_commands |-> total_commands,
         successful_commands |-> successful_commands,
         failed_commands |-> total_commands - successful_commands,
         by_category |-> by_category,
         oldest_command |-> EdgeTimestamp(db, "timestamp ASC"),
         newest_command |-> EdgeTimestamp(db, "timestamp DESC")] :
            by_category \in Arrangements(GroupByCategory(db), "count DESC")}

\* the Stats get_stats can return (categories of equal count in any order)
get_stats(db) ==
    LET total_commands == Len(db.rows)
        successful_commands == CountRows(db, {0})
    IN {[total_commands |-> total_commands,
         successful_commands |-> successful_commands,
         failed_commands |-> total_commands - successful_commands,
         by_category |-> by_category,
         oldest_command |-> EdgeTimestamp(db, "timestamp ASC"),
         newest_command |-> EdgeTimestamp(db, "timestamp DESC")] :
            by_category \in Arrangements(GroupByCategory(db), "count DESC")}

\* Stats::success_rate, a percentage, as the fraction num / den
success_rate(stats) ==
    IF stats.total_commands = 0 THEN [num |-> 0, den |-> 1]
    ELSE [num |-> stats.successful_commands * 100, den |-> stats.total_commands]

----------------------------------------------------------------------------
(* Inputs of the operations. The state machine draws its calls from the    *)
(* small sets (CaptureCalls, Snapshots, Queries); the properties of one    *)
(* call are checked over the wider sets (AnyCaptureCall, AnySnapshot).     *)

DirA == <<"/", "a">>
Ls == <<"l", "s">>
SecretP == <<"P">>

Config(enabled, min_duration_ms) ==
    [privacy |-> [redact_patterns |-> <<<<"p">>>>, enabled |-> enabled],
     capture |-> [min_duration_ms |-> min_duration_ms]]

Configs == {Config(TRUE, 0), Config(FALSE, 0), Config(TRUE, 9)}

RawCommands == {<<>>, <<" ", "\t">>, Ls, <<" ", "l", "s", " ">>, SecretP, REDACTED}

Call(config, command, exit_code, duration_ms, cwd) ==
    [config |-> config, command |-> command, exit_code |-> exit_code,
     duration_ms |-> duration_ms, cwd |-> cwd]

AnyCaptureCall ==
    {Call(cf, c, e, d, w) : cf \in Configs, c \in RawCommands, e \in {0, 1},
                            d \in {0, 5}, w \in {Some(DirA), None}}

CaptureCalls ==
    {c \in AnyCaptureCall :
        /\ c.duration_ms = 5
        /\ c.exit_code # 0 \/ c.cwd = None => c.command = Ls /\ c.config = Config(TRUE, 0)
        /\ c.exit_code # 0 => c.cwd # None}

Strategies == {"Skip", "UpdateUsage", "PreserveHigher"}

\* records of a snapshot written on another machine
SnapshotRecord(command, usage_count) ==
    [id |-> Some(1), command |-> command, timestamp |-> 0, exit_code |-> 0,
     duration_ms |-> 5, working_dir |-> DirA, category |-> categorize(command),
     usage_count |-> usage_count, last_used |-> MaxTime]

Lists(records, n) == UNION {[1..k -> records] : k \in 0..n}

\* a snapshot document: any version tag, and a command_count that may
\* disagree with the list by `off`
Document(version, off, commands) ==
    to_string_pretty([version |-> version, exported_at |-> to_rfc3339(0),
                      command_count |-> Len(commands) + off, commands |-> commands])

AnySnapshot ==
    {Document(v, off, l) : v \in {<<>>, EXPORT_VERSION}, off \in {0, 1},
        l \in Lists({SnapshotRecord(Ls, 1), SnapshotRecord(Ls, MaxUsage + 2),
                     SnapshotRecord(SecretP, 1), SnapshotRecord(SecretP, MaxUsage)},
                    MaxSnapshot)}

\* snapshots with version tags other than the one export writes
VersionSnapshots ==
    {Document(v, 0, l) : v \in {<<>>, EXPORT_VERSION, <<"2">>, <<" ">>},
        l \in Lists({SnapshotRecord(Ls, 1), SnapshotRecord(SecretP, 1)}, 1)}

Snapshots ==
    {d \in {Document(v, off, l) : v \in {<<>>, EXPORT_VERSION}, off \in {0, 1},
               l \in Lists({SnapshotRecord(Ls, 1), SnapshotRecord(Ls, MaxUsage),
                             SnapshotRecord(SecretP, 1)}, MaxSnapshot)} :
        d.command_count + (IF d.version = <<>> THEN 1 ELSE 0) <= MaxSnapshot}

Queries ==
    {[text |-> tx, category |-> c, success_only |-> None, working_dir |-> None,
      recursive |-> FALSE, limit |-> l, order_by |-> o] :
        tx \in {None, Some(Ls), Some(<<"l">>)},
        c \in {None},
        l \in {1, MaxRecords},
        o \in {"Timestamp", "UsageCount", "Relevance"}}

SearchFaults == {"none", "prepare", "query", "rows"}

\* free-text phrases: a whole word, a part of a word, another case, and
\* phrases with the characters FTS5 and LIKE read as syntax
TextPhrases ==
    {Ls, <<"l">>, <<"L", "S">>, <<QUOTE>>, <<"l", QUOTE, "s">>, <<".">>,
     <<"*">>, <<"%">>, <<"l", "_">>}

\* queries with the working-directory filter (the `here` and --dir forms)
DirQueries ==
    {[text |-> None, category |-> None, success_only |-> None,
      working_dir |-> Some(d), recursive |-> rec, limit |-> MaxRecords,
      order_by |-> "Timestamp"] :
        d \in {DirA, UNKNOWN_DIR, <<"/">>, <<"/", "u">>, <<"/", "A">>, <<"/", "_">>},
        rec \in BOOLEAN}

TextQueries ==
    {[text |-> Some(tx), category |-> None, success_only |-> None,
      working_dir |-> None, recursive |-> FALSE, limit |-> l, order_by |-> o] :
        tx \in TextPhrases,
        l \in {1, MaxRecords},
        o \in {"Timestamp", "UsageCount"}}

----------------------------------------------------------------------------
(* The state machine. *)

WithinBounds(db) ==
    /\ Len(db.rows) <= MaxRecords
    /\ \A i \in 1..Len(db.rows) : db.rows[i].usage_count <= MaxUsage

NoFile == <<>>

Returned(op, path, ok, stats, rows) ==
    [op |-> op, path |-> path, ok |-> ok, stats |-> stats, rows |-> rows]

\* the shell sessions whose hooks run `omniscient capture` on one database
Sessions == {"s1", "s2"}

IdleSession == [pc |-> "idle", looked |-> <<>>, exit_code |-> 0, duration_ms |-> 0]

Init ==
    /\ store = EmptyDb
    /\ now = 0
    /\ ret = Returned("new", "", TRUE, NoStats, <<>>)
    /\ file = NoFile
    /\ target = EmptyDb
    /\ captured = <<>>
    /\ session = [p \in Sessions |-> IdleSession]

Tick ==
    /\ now < MaxTime
    /\ now' = now + 1
    /\ UNCHANGED <<store, ret, file, target, captured, session>>

CaptureStep(c) ==
    LET r == capture(store, c.config, c.command, c.exit_code, c.duration_ms,
                     c.cwd, now, "none")
    IN /\ WithinBounds(r.db)
       /\ store' = r.db
       /\ ret' = Returned("capture", r.path, r.ok, NoStats, <<>>)
       /\ UNCHANGED <<now, file, target, session>>

Capture(c) == CaptureStep(c) /\ UNCHANGED captured

Import(json, strategy) ==
    LET r == import(store, json, strategy, now, 0)
    IN /\ WithinBounds(r.db)
       /\ store' = r.db
       /\ ret' = Returned("import", strategy, r.ok, r.stats, <<>>)
       /\ UNCHANGED <<now, file, target, captured, session>>

Next ==
    \/ Tick
    \/ \E c \in CaptureCalls : Capture(c)
    \/ \E json \in Snapshots, strategy \in Strategies : Import(json, strategy)

Spec == Init /\ [][Next]_vars

----------------------------------------------------------------------------
(* Captures only, with the accepted calls counted per pair. A call is      *)
(* accepted when it passes the empty, threshold and redaction checks.      *)

Blank(s) == \A i \in 1..Len(s) : s[i] \in {" ", "\t"}

\* the command without its leading and trailing blanks
Stripped(s) ==
    IF Blank(s) THEN <<>>
    ELSE LET first == CHOOSE i \in 1..Len(s) :
                          s[i] \notin {" ", "\t"} /\ Blank(SubSeq(s, 1, i - 1))
             last == CHOOSE i \in 1..Len(s) :
                          s[i] \notin {" ", "\t"} /\ Blank(SubSeq(s, i + 1, Len(s)))
         IN SubSeq(s, first, last)

MatchesEnabledPattern(c) ==
    /\ c.config.privacy.enabled
    /\ \E k \in 1..Len(c.config.privacy.redact_patterns) :
          LET p == c.config.privacy.redact_patterns[k]
              s == Stripped(c.command)
          IN \E i \in 0..(Len(s) - Len(p)) : \A j \in 1..Len(p) :
                s[i + j] \in {p[j], IF p[j] = "p" THEN "P" ELSE p[j]}

Accepted(c) ==
    /\ ~Blank(c.command)
    /\ c.duration_ms >= c.config.capture.min_duration_ms
    /\ ~MatchesEnabledPattern(c)
    /\ Stripped(c.command) # REDACTED

KeyOfCall(c) == <<Stripped(c.command), IF c.cwd = None THEN UNKNOWN_DIR ELSE c.cwd[1]>>

CountedCapture(c) ==
    /\ CaptureStep(c)
    /\ captured' = IF ~Accepted(c) THEN captured
                   ELSE IF KeyOfCall(c) \in DOMAIN captured
                   THEN [captured EXCEPT ![KeyOfCall(c)] = @ + 1]
                   ELSE captured @@ (KeyOfCall(c) :> 1)

NextCapture ==
    \/ Tick
    \/ \E c \in CaptureCalls : CountedCapture(c)

SpecCapture == Init /\ [][NextCapture]_vars

----------------------------------------------------------------------------
(* Captures and searches. *)

Search(query, fault) ==
    \E r \in search(store, query, fault) :
        /\ ret' = Returned("search", fault, r.ok, NoStats, r.rows)
        /\ UNCHANGED <<store, now, file, target, captured, session>>

NextSearch ==
    \/ Tick
    \/ \E c \in CaptureCalls : Capture(c)
    \/ \E query \in Queries, fault \in SearchFaults : Search(query, fault)

SpecSearch == Init /\ [][NextSearch]_vars

----------------------------------------------------------------------------
(* The round trip: a store is filled, exported to a file, and the file is  *)
(* imported into the empty store of another machine.                       *)

Export ==
    /\ file = NoFile
    /\ \E json \in export(store, now) :
          /\ file' = json
          /\ ret' = Returned("export", "", TRUE, NoStats, from_str(json).commands)
    /\ UNCHANGED <<store, now, target, captured, session>>

ImportTarget(strategy) ==
    /\ file # NoFile
    /\ target = EmptyDb
    /\ LET r == import(target, file, strategy, now, 0)
       IN /\ WithinBounds(r.db)
          /\ target' = r.db
          /\ ret' = Returned("import_target", strategy, r.ok, r.stats, <<>>)
    /\ UNCHANGED <<store, now, file, captured, session>>

NextRoundTrip ==
    \/ file = NoFile /\ Tick
    \/ file = NoFile /\ \E c \in CaptureCalls : Capture(c)
    \/ Export
    \/ \E strategy \in Strategies : ImportTarget(strategy)

SpecRoundTrip == Init /\ [][NextRoundTrip]_vars

----------------------------------------------------------------------------
(* Captures and the read commands: recent, top, category, stats, and the   *)
(* read of every record that export starts with.                           *)

ReadLimits == {1, MaxRecords}

ReadDirs == {None, Some(DirA)}

Recent(limit, working_dir, recursive) ==
    \E r \in get_recent(store, limit, working_dir, recursive) :
        /\ ret' = Returned("get_recent", "", r.ok, NoStats, r.rows)
        /\ UNCHANGED <<store, now, file, target, captured, session>>

Top(limit, working_dir, recursive) ==
    \E r \in get_top(store, limit, working_dir, recursive) :
        /\ ret' = Returned("get_top", "", r.ok, NoStats, r.rows)
        /\ UNCHANGED <<store, now, file, target, captured, session>>

ByCategory(category, limit, working_dir, recursive) ==
    \E r \in get_by_category(store, category, limit, working_dir, recursive) :
        /\ ret' = Returned("get_by_category", category, r.ok, NoStats, r.rows)
        /\ UNCHANGED <<store, now, file, target, captured, session>>

GetStats ==
    \E st \in get_stats(store) :
        /\ ret' = Returned("get_stats", "", TRUE, st, <<>>)
        /\ UNCHANGED <<store, now, file, target, captured, session>>

GetAll ==
    \E rs \in get_all(store) :
        /\ ret' = Returned("get_all", "", TRUE, NoStats, rs)
        /\ UNCHANGED <<store, now, file, target, captured, session>>

NextReads ==
    \/ Tick
    \/ \E c \in CaptureCalls : Capture(c)
    \/ \E l \in ReadLimits, d \in ReadDirs, rec \in BOOLEAN : Recent(l, d, rec)
    \/ \E l \in ReadLimits, d \in ReadDirs, rec \in BOOLEAN : Top(l, d, rec)
    \/ \E cat \in {"file", "other"}, l \in ReadLimits, d \in ReadDirs, rec \in BOOLEAN :
          ByCategory(cat, l, d, rec)
    \/ GetStats
    \/ GetAll

SpecReads == Init /\ [][NextReads]_vars

----------------------------------------------------------------------------
(* Every operation of the core on one store: capture, increment_usage,     *)
(* import, search, get_stats, export.                                      *)

IncrementUsage(id) ==
    LET r == increment_usage_result(store, id, now, FALSE)
    IN /\ WithinBounds(r.db)
       /\ store' = r.db
       /\ ret' = Returned("increment_usage", "", r.ok, NoStats, <<>>)
       /\ UNCHANGED <<now, file, target, captured, session>>

\* export writes the snapshot over whatever the file held
ExportFile ==
    /\ \E json \in export(store, now) :
          /\ file' = json
          /\ ret' = Returned("export", "", TRUE, NoStats, <<>>)
    /\ UNCHANGED <<store, now, target, captured, session>>

CoreCalls == {c \in CaptureCalls : c.config = Config(FALSE, 0) \/ c.exit_code # 0}

CoreSnapshots == {d \in Snapshots : Len(d.commands) <= 1}

CoreQueries == {q \in Queries : q.limit = MaxRecords /\ q.order_by = "Timestamp"}

NextCore ==
    \/ Tick
    \/ \E c \in CoreCalls : Capture(c)
    \/ \E id \in 1..(MaxRecords + 1) : IncrementUsage(id)
    \/ \E json \in CoreSnapshots, strategy \in Strategies : Import(json, strategy)
    \/ \E query \in CoreQueries : Search(query, "none")
    \/ GetStats
    \/ ExportFile

SpecCore == Init /\ [][NextCore]_vars

----------------------------------------------------------------------------
(* sanitize_fts5_query applied to phrases of quotes and other characters.  *)
(* ret.stats holds the phrase, ret.rows what the function returned.        *)

Phrases == UNION {[1..n -> {"l", "*", QUOTE}] : n \in 0..MaxPhraseLen}

Sanitize(q) ==
    /\ ret' = Returned("sanitize_fts5_query", "", TRUE, q, sanitize_fts5_query(q))
    /\ UNCHANGED <<store, now, file, target, captured, session>>

NextSanitize ==
    \/ Tick
    \/ \E q \in Phrases : Sanitize(q)

SpecSanitize == Init /\ [][NextSanitize]_vars

----------------------------------------------------------------------------
(* Imports during which a store call can fail. *)

ImportWithFault(json, strategy, fail_at) ==
    LET r == import(store, json, strategy, now, fail_at)
    IN /\ WithinBounds(r.db)
       /\ store' = r.db
       /\ ret' = Returned("import", IF r.ok THEN strategy ELSE "failed", r.ok,
                          r.stats, <<>>)
       /\ UNCHANGED <<now, file, target, captured, session>>

NextImportFaults ==
    \/ Tick
    \/ \E c \in CoreCalls : Capture(c)
    \/ \E json \in Snapshots, strategy \in Strategies, fail_at \in 0..MaxSnapshot :
          ImportWithFault(json, strategy, fail_at)

SpecImportFaults == Init /\ [][NextImportFaults]_vars

----------------------------------------------------------------------------
(* The capture command of the CLI, with storage calls that can fail. *)

CaptureFaults == {"none", "open", "find", "write"}

CliCapture(c, fault) ==
    LET r == main_capture(store, c.config, c.command, c.exit_code, c.duration_ms,
                          c.cwd, now, fault)
    IN /\ WithinBounds(r.db)
       /\ store' = r.db
       /\ ret' = Returned("cli_capture", r.path, r.exit_ok, NoStats, <<>>)
       /\ UNCHANGED <<now, file, target, captured, session>>

NextCli ==
    \/ Tick
    \/ \E c \in CaptureCalls, fault \in CaptureFaults : CliCapture(c, fault)

SpecCli == Init /\ [][NextCli]_vars

----------------------------------------------------------------------------
(* Two shell sessions on one database. Each capture is a process of its    *)
(* own with its own connection; its SQL statements are atomic, the         *)
(* sequence find_duplicate .. insert / increment_usage is not (no          *)
(* transaction, and no UNIQUE constraint on the pair in the schema).       *)

SessionCalls ==
    {c \in CaptureCalls : c.exit_code = 0 /\ c.cwd # None /\ c.config # Config(TRUE, 9)}

Lookup(p, c) ==
    /\ session[p].pc # "looked"
    /\ LET l == capture_lookup(store, c.config, c.command, c.duration_ms, c.cwd)
       IN IF l.path = "looked"
          THEN /\ session' = [session EXCEPT ![p] =
                      [pc |-> "looked", looked |-> l, exit_code |-> c.exit_code,
                       duration_ms |-> c.duration_ms]]
               /\ UNCHANGED ret
          ELSE /\ session' = [session EXCEPT ![p] = IdleSession]
               /\ ret' = Returned("capture", l.path, TRUE, NoStats, <<>>)
    /\ UNCHANGED <<store, now, file, target, captured>>

Write(p) ==
    /\ session[p].pc = "looked"
    /\ LET r == capture_write(store, session[p].looked, session[p].exit_code,
                              session[p].duration_ms, now)
       IN /\ Len(r.db.rows) <= MaxRecords
          /\ \A i \in 1..Len(r.db.rows) : r.db.rows[i].usage_count <= MaxSessionUsage
          /\ store' = r.db
          /\ ret' = Returned("capture", r.path, r.ok, NoStats, <<>>)
    /\ session' = [session EXCEPT ![p].pc = "done"]
    /\ UNCHANGED <<now, file, target, captured>>

NextSessions ==
    \/ Tick
    \/ \E p \in Sessions, c \in SessionCalls : Lookup(p, c)
    \/ \E p \in Sessions : Write(p)

SpecSessions == Init /\ [][NextSessions]_vars

----------------------------------------------------------------------------
(* Properties of the capture pipeline. *)

Key(row) == <<row.command, row.working_dir>>

UniqueKeys(db) ==
    \A i, j \in 1..Len(db.rows) : i # j => Key(db.rows[i]) # Key(db.rows[j])

RowsWithKey(db, key) == {i \in 1..Len(db.rows) : Key(db.rows[i]) = key}

CaptureResult(c) ==
    capture(store, c.config, c.command, c.exit_code, c.duration_ms, c.cwd, now, "none")

\* C1: after any sequence of captures (and imports) from the empty store, no
\* two records of the store have the same (command, working_dir).
C1_UniqueKeys == UniqueKeys(store)

\* a repeated capture has run while the store holds two records
C1_Witness ==
    /\ ret.op = "capture"
    /\ ret.path = "incremented"
    /\ Len(store.rows) = 2

\* C2: an accepted capture of a pair that has a record adds exactly 1 to that
\* record's usage_count and inserts nothing; and in a run of captures from
\* the empty store, a pair captured n times (accepted) has exactly one
\* record, with usage_count = n.
C2_IncrementByOne ==
    /\ \A c \in AnyCaptureCall :
          LET hits == RowsWithKey(store, KeyOfCall(c))
              r == CaptureResult(c)
          IN Accepted(c) /\ hits # {} =>
                /\ r.ok
                /\ Len(r.db.rows) = Len(store.rows)
                /\ \A i \in hits :
                      r.db.rows[i].usage_count = store.rows[i].usage_count + 1
    /\ \A key \in DOMAIN captured :
          /\ Cardinality(RowsWithKey(store, key)) = 1
          /\ \A i \in RowsWithKey(store, key) :
                store.rows[i].usage_count = captured[key]
    /\ \A i \in 1..Len(store.rows) : Key(store.rows[i]) \in DOMAIN captured

\* a pair has been captured twice and its record counts 2
C2_Witness ==
    /\ ret.op = "capture"
    /\ ret.path = "incremented"
    /\ \E key \in DOMAIN captured :
          /\ captured[key] = 2
          /\ \E i \in RowsWithKey(store, key) : store.rows[i].usage_count = 2

\* C3 as stated: after the capture of a command that matches an enabled
\* pattern, the store holds no record with that command text.
C3_NoRecordAfterRedaction ==
    \A c \in AnyCaptureCall :
        MatchesEnabledPattern(c) /\ ~Blank(c.command) =>
            \A i \in 1..Len(CaptureResult(c).db.rows) :
                CaptureResult(c).db.rows[i].command # Stripped(c.command)

\* C3 amended: the capture of a command that matches an enabled pattern
\* (and is not dropped earlier as blank or too short) returns success and
\* leaves the store as it was: nothing is inserted and nothing is updated.
C3_RedactedCaptureIsNoOp ==
    \A c \in AnyCaptureCall :
        MatchesEnabledPattern(c) /\ ~Blank(c.command) =>
            /\ CaptureResult(c).ok
            /\ CaptureResult(c).db = store

\* a redacted capture has returned while a record of a matching command,
\* captured with redaction disabled, is in the store
C3_Witness ==
    /\ ret.op = "capture"
    /\ ret.path = "redacted"
    /\ \E i \in 1..Len(store.rows) : store.rows[i].command = SecretP

\* C4: a capture whose command is blank, or whose duration is below the
\* configured minimum, returns success and leaves the store unchanged.
C4_BlankOrShortIsNoOp ==
    \A c \in AnyCaptureCall :
        Blank(c.command) \/ c.duration_ms < c.config.capture.min_duration_ms =>
            /\ CaptureResult(c).ok
            /\ CaptureResult(c).db = store

\* a capture below the threshold has returned on a store that holds records
C4_Witness ==
    /\ ret.op = "capture"
    /\ ret.path \in {"empty", "below_min_duration"}
    /\ store.rows # <<>>

\* C15: a capture call, whether it succeeds or a storage call fails, either
\* leaves the store as it was, or appends one record (of its own pair, with
\* usage_count 1), or changes one record of its own pair (usage_count + 1,
\* last_used = now) and no other.
C15_AtMostOneMutation ==
    \A c \in AnyCaptureCall, fault \in {"none", "find", "write"} :
        LET r == capture(store, c.config, c.command, c.exit_code, c.duration_ms,
                         c.cwd, now, fault)
            n == Len(store.rows)
        IN \/ r.db = store
           \/ /\ Len(r.db.rows) = n + 1
              /\ SubSeq(r.db.rows, 1, n) = store.rows
              /\ Key(r.db.rows[n + 1]) = KeyOfCall(c)
              /\ r.db.rows[n + 1].usage_count = 1
           \/ /\ Len(r.db.rows) = n
              /\ \E i \in 1..n :
                    /\ Key(store.rows[i]) = KeyOfCall(c)
                    /\ r.db.rows[i] = [store.rows[i] EXCEPT
                                          !.usage_count = @ + 1,
                                          !.last_used = to_rfc3339(now)]
                    /\ \A j \in 1..n : j # i => r.db.rows[j] = store.rows[j]

\* a capture has incremented one of two records and left the other, which
\* still counts 1
C15_Witness ==
    /\ ret.op = "capture"
    /\ ret.path = "incremented"
    /\ \E i, j \in 1..Len(store.rows) :
          store.rows[i].usage_count = 1 /\ store.rows[j].usage_count > 1

\* C16: increment_usage with an id that no record has fails and leaves
\* the store unchanged; with an id that a record has, it succeeds.
C16_IncrementMissingIdFails ==
    \A id \in 1..(MaxRecords + 1) :
        LET r == increment_usage_result(store, id, now, FALSE)
        IN IF \E i \in 1..Len(store.rows) : store.rows[i].id = id
           THEN r.ok
           ELSE ~r.ok /\ r.db = store

\* C25: with redaction disabled, every capture of a command that is not
\* blank and not below the threshold inserts or increments, and the record
\* of exactly that (trimmed) text and directory is in the store afterwards.
C25_DisabledRedactionKeepsAll ==
    \A c \in AnyCaptureCall :
        /\ ~c.config.privacy.enabled
        /\ ~Blank(c.command)
        /\ c.duration_ms >= c.config.capture.min_duration_ms
        => /\ CaptureResult(c).path \in {"inserted", "incremented"}
           /\ RowsWithKey(CaptureResult(c).db, KeyOfCall(c)) # {}

----------------------------------------------------------------------------
(* Properties of import. *)

ImportResult(json, strategy) == import(store, json, strategy, now, 0)

StoredKeys == {Key(store.rows[i]) : i \in 1..Len(store.rows)}

\* C5: every import that returns ImportStats has imported + skipped +
\* updated = total_commands = the number of records of the snapshot's list,
\* whatever the snapshot's command_count says.
C5_StatsAddUp ==
    \A json \in AnySnapshot, strategy \in Strategies :
        LET r == ImportResult(json, strategy)
        IN r.ok =>
              /\ r.stats.imported + r.stats.skipped + r.stats.updated
                    = r.stats.total_commands
              /\ r.stats.total_commands = Len(json.commands)

\* C6: PreserveHigher, one incoming record whose pair has a record: a
\* strictly greater incoming usage_count becomes the stored one and counts
\* as updated; otherwise nothing changes and it counts as skipped.
C6_PreserveHigherStoresIncoming ==
    \A json \in AnySnapshot :
        json.version # <<>> /\ Len(json.commands) = 1 =>
            LET incoming == from_str(json).commands[1]
                r == ImportResult(json, "PreserveHigher")
            IN \A i \in RowsWithKey(store, Key(incoming)) :
                  IF incoming.usage_count > store.rows[i].usage_count
                  THEN /\ r.db.rows[i].usage_count = incoming.usage_count
                       /\ r.stats.updated = 1
                       /\ r.stats.skipped = 0
                  ELSE /\ r.db = store
                       /\ r.stats.updated = 0
                       /\ r.stats.skipped = 1

\* C7: UpdateUsage, one incoming record whose pair has a record: the stored
\* usage_count becomes existing + incoming, last_used becomes the current
\* time, and the record counts as updated.
C7_UpdateUsageSums ==
    \A json \in AnySnapshot :
        json.version # <<>> /\ Len(json.commands) = 1 =>
            LET incoming == from_str(json).commands[1]
                r == ImportResult(json, "UpdateUsage")
            IN \A i \in RowsWithKey(store, Key(incoming)) :
                  /\ r.db.rows[i].usage_count
                        = store.rows[i].usage_count + incoming.usage_count
                  /\ r.db.rows[i].last_used = to_rfc3339(now)
                  /\ r.stats.updated = 1

\* C8: an import with strategy Skip leaves every record that was in the
\* store as it was, and counts as skipped exactly the incoming records
\* whose pair already has a record when they are processed.
C8_SkipLeavesExisting ==
    \A json \in AnySnapshot :
        LET r == ImportResult(json, "Skip")
            commands == from_str(json).commands
            duplicates == {k \in 1..Len(commands) :
                              \/ Key(commands[k]) \in StoredKeys
                              \/ \E j \in 1..(k - 1) : Key(commands[j]) = Key(commands[k])}
        IN /\ Len(r.db.rows) >= Len(store.rows)
           /\ \A i \in 1..Len(store.rows) : r.db.rows[i] = store.rows[i]
           /\ r.ok => /\ r.stats.skipped = Cardinality(duplicates)
                      /\ r.stats.updated = 0

\* an import with Skip has skipped one record and inserted another
C8_Witness ==
    /\ ret.op = "import"
    /\ ret.path = "Skip"
    /\ ret.ok
    /\ ret.stats.skipped >= 1
    /\ ret.stats.imported >= 1

\* C20: an import of a snapshot with an empty version fails and leaves the
\* store as it was; with any non-empty version the import is accepted and
\* every record of the list is processed.
C20_EmptyVersionRejected ==
    \A json \in VersionSnapshots, strategy \in Strategies :
        LET r == ImportResult(json, strategy)
        IN IF json.version = <<>>
           THEN ~r.ok /\ r.db = store
           ELSE /\ r.ok
                /\ r.stats.imported + r.stats.skipped + r.stats.updated
                      = Len(json.commands)

\* an import of a snapshot without version has failed on a store that
\* holds records
C20_Witness ==
    /\ ret.op = "import"
    /\ ~ret.ok
    /\ store.rows # <<>>

\* C27: an import into a store with unique pairs leaves a store with
\* unique pairs, for every strategy and every snapshot, also one that
\* lists a pair more than once.
C27_ImportKeepsKeysUnique ==
    \A json \in AnySnapshot, strategy \in Strategies :
        UniqueKeys(store) => UniqueKeys(ImportResult(json, strategy).db)

\* a snapshot of two records of one pair has been imported into the empty
\* store: the first was inserted, the second reconciled with it
C27_Witness ==
    /\ ret.op = "import"
    /\ ret.ok
    /\ ret.stats.imported = 1
    /\ ret.stats.skipped + ret.stats.updated = 1
    /\ Len(store.rows) = 1

----------------------------------------------------------------------------
(* The round trip (SpecRoundTrip). *)

WithoutId(row) == [row EXCEPT !.id = 0]

SameRecords(a, b) ==
    /\ Len(a.rows) = Len(b.rows)
    /\ {WithoutId(a.rows[i]) : i \in 1..Len(a.rows)}
          = {WithoutId(b.rows[i]) : i \in 1..Len(b.rows)}

\* C9: the export of a store of N records, imported with Skip into an empty
\* store, gives imported = N, skipped = 0, updated = 0 and a store with the
\* source's records, equal in every field but id.
C9_RoundTrip ==
    ret.op = "import_target" /\ ret.path = "Skip" =>
        /\ ret.ok
        /\ ret.stats.imported = Len(store.rows)
        /\ ret.stats.skipped = 0
        /\ ret.stats.updated = 0
        /\ ret.stats.total_commands = Len(store.rows)
        /\ SameRecords(target, store)

\* a store of two records, one of them used twice, has made the round trip
\* and a record came out under another id
C9_Witness ==
    /\ ret.op = "import_target"
    /\ ret.path = "Skip"
    /\ Len(target.rows) = 2
    /\ \E i \in 1..2 : target.rows[i].usage_count = 2
    /\ \E i, j \in 1..2 : /\ Key(target.rows[i]) = Key(store.rows[j])
                          /\ target.rows[i].id # store.rows[j].id

----------------------------------------------------------------------------
(* Properties of search (SpecSearch). *)

\* C10: with a text phrase, a failure of the indexed statement at any stage
\* (prepare, start of execution, reading the rows) makes search return what
\* the substring fallback returns, never an error.
C10_FallbackAtEveryStage ==
    \A query \in Queries, fault \in SearchFaults \ {"none"} :
        query.text # None =>
            search(store, query, fault) = search_with_like(store, query, query.text[1])

\* what a set of possible results holds, whatever the order of the rows
ResultSets(results) ==
    {[ok |-> r.ok, records |-> {r.rows[i] : i \in 1..Len(r.rows)}] : r \in results}

\* C11: for every store and every query with a text phrase, the indexed
\* statement and the substring fallback return the same set of records.
C11_FallbackEquivalence ==
    \A query \in TextQueries :
        ResultSets(search(store, query, "none"))
            = ResultSets(search_with_like(store, query, query.text[1]))

\* C12: a search with a text phrase returns without error, and (the limit
\* not cutting the result) returns exactly the records that pass the other
\* filters and whose command contains the phrase as a plain substring.
C12_LiteralSubstring ==
    \A query \in TextQueries :
        query.limit >= Len(store.rows) =>
            \A r \in search(store, query, "none") :
                /\ r.ok
                /\ {r.rows[i].id[1] : i \in 1..Len(r.rows)}
                      = {store.rows[i].id : i \in
                            {k \in 1..Len(store.rows) :
                                /\ FilterTerms(store.rows[k], query)
                                /\ Contains(store.rows[k].command, query.text[1], FALSE)}}

\* the order a mode asks for, read off the returned records
SortedBy(rows, order_by) ==
    \A i, j \in 1..Len(rows) :
        i < j =>
            IF order_by = "Timestamp"
            THEN rows[i].timestamp >= rows[j].timestamp
            ELSE \/ rows[i].usage_count > rows[j].usage_count
                 \/ /\ rows[i].usage_count = rows[j].usage_count
                    /\ rows[i].timestamp >= rows[j].timestamp

\* C18: on the indexed path and on the fallback path, the rows come newest
\* first with Timestamp, and most used first (newest first among equally
\* used) with UsageCount and with Relevance; Relevance and UsageCount give
\* the same results.
C18_Ordered ==
    \A query \in Queries, fault \in {"none", "prepare"} :
        /\ \A r \in search(store, query, fault) :
              r.ok => SortedBy(r.rows, query.order_by)
        /\ search(store, [query EXCEPT !.order_by = "Relevance"], fault)
              = search(store, [query EXCEPT !.order_by = "UsageCount"], fault)

\* a search has returned two records of which the more used is the older
C18_Witness ==
    /\ ret.op = "search"
    /\ ret.ok
    /\ Len(ret.rows) = 2
    /\ ret.rows[1].usage_count > ret.rows[2].usage_count
    /\ ret.rows[1].timestamp < ret.rows[2].timestamp

\* directory d is w itself or a directory above w
PathPrefix(d, w) ==
    /\ Len(d) <= Len(w)
    /\ SubSeq(w, 1, Len(d)) = d
    /\ \/ Len(w) = Len(d)
       \/ w[Len(d) + 1] = "/"
       \/ d[Len(d)] = "/"

\* C19: with the directory filter (the limit not cutting the result) search
\* returns exactly the records whose working_dir equals the directory, or,
\* with recursive, the records whose working_dir is the directory or lies
\* below it.
C19_DirectoryFilter ==
    \A query \in DirQueries :
        query.limit >= Len(store.rows) =>
            \A r \in search(store, query, "none") :
                /\ r.ok
                /\ {r.rows[i].id[1] : i \in 1..Len(r.rows)}
                      = {store.rows[i].id : i \in
                            {k \in 1..Len(store.rows) :
                                IF query.recursive
                                THEN PathPrefix(query.working_dir[1],
                                                store.rows[k].working_dir)
                                ELSE store.rows[k].working_dir = query.working_dir[1]}}

----------------------------------------------------------------------------
(* Properties of concurrent captures (SpecSessions). *)

SawNone(p) == session[p].pc = "done" /\ session[p].looked.existing = None

KeyLooked(p) == <<session[p].looked.processed_command, session[p].looked.working_dir>>

\* C13: when two sessions have both looked the same pair up, both seen no
\* record, and both gone on to write, the store holds two records of that
\* pair: each has inserted, nothing rejects or merges the second insert.
C13_BothInsert ==
    \A p, q \in Sessions :
        p # q /\ SawNone(p) /\ SawNone(q) /\ KeyLooked(p) = KeyLooked(q) =>
            Cardinality(RowsWithKey(store, KeyLooked(p))) >= 2

\* the interleaving has happened: both sessions saw no record of the pair,
\* both have written, and the store is no longer unique on the pair
C13_Witness ==
    /\ \E p, q \in Sessions :
          p # q /\ SawNone(p) /\ SawNone(q) /\ KeyLooked(p) = KeyLooked(q)
    /\ ~UniqueKeys(store)

----------------------------------------------------------------------------
(* Properties of the capture command under storage failures (SpecCli). *)

\* C14: whatever fails on the capture path (opening the store, the
\* duplicate lookup, the insert, the increment), the capture command ends
\* with success.
C14_CaptureCommandSucceeds ==
    ret.op = "cli_capture" => ret.ok

----------------------------------------------------------------------------
(* Properties of last_used over a run of captures and imports (Spec). *)

\* C17: no step of a run of captures and imports moves the last_used of a
\* record of the store backward.
C17_LastUsedNeverBackward ==
    [][\A i \in 1..Len(store.rows) :
          parse_rfc3339(store'.rows[i].last_used)
              >= parse_rfc3339(store.rows[i].last_used)]_vars

----------------------------------------------------------------------------
(* Properties of the read operations (SpecReads). *)

RECURSIVE SumCounts(_)
SumCounts(by_category) ==
    IF by_category = <<>> THEN 0
    ELSE Head(by_category).count + SumCounts(Tail(by_category))

\* C21: get_stats succeeds on every reachable store; total_commands is the
\* number of records, successful_commands the number with exit_code 0,
\* failed_commands their difference; by_category has one entry per category
\* present, counts non-increasing and summing to total_commands. On the
\* empty store: total 0, no categories, no oldest/newest, success rate 0.
C21_StatsConsistent ==
    /\ get_stats(store) # {}
    /\ \A st \in get_stats(store) :
          LET n == Len(st.by_category)
          IN /\ st.total_commands = Len(store.rows)
             /\ st.successful_commands
                   = Cardinality({i \in 1..Len(store.rows) : store.rows[i].exit_code = 0})
             /\ st.failed_commands = st.total_commands - st.successful_commands
             /\ {st.by_category[i].category : i \in 1..n}
                   = {store.rows[i].category : i \in 1..Len(store.rows)}
             /\ \A i, j \in 1..n :
                   /\ i # j => st.by_category[i].category # st.by_category[j].category
                   /\ i < j => st.by_category[i].count >= st.by_category[j].count
             /\ SumCounts(st.by_category) = st.total_commands
             /\ store.rows = <<>> =>
                   /\ st.total_commands = 0
                   /\ st.by_category = <<>>
                   /\ st.oldest_command = None
                   /\ st.newest_command = None
                   /\ success_rate(st).num = 0

\* stats have been returned for a store with two categories, a failed
\* command and a record used more than once
C21_Witness ==
    /\ ret.op = "get_stats"
    /\ Len(ret.stats.by_category) = 2
    /\ ret.stats.failed_commands >= 1
    /\ \E i \in 1..Len(store.rows) : store.rows[i].usage_count > 1

\* the results of the reads that take a limit, for the limit l
LimitedReads(l) ==
    UNION ({get_recent(store, l, d, rec) : d \in ReadDirs, rec \in BOOLEAN}
           \cup {get_top(store, l, d, rec) : d \in ReadDirs, rec \in BOOLEAN}
           \cup {get_by_category(store, cat, l, d, rec) :
                    cat \in {"file", "other"}, d \in ReadDirs, rec \in BOOLEAN}
           \cup {search(store, [q EXCEPT !.limit = l], fault) :
                    q \in Queries \cup TextQueries \cup DirQueries,
                    fault \in {"none", "prepare"}})

\* C24 as stated: every read, get_all included, returns at most as many
\* records as the limit the caller supplies.
C24_AllReadsBounded ==
    \A l \in ReadLimits :
        /\ \A r \in LimitedReads(l) : Len(r.rows) <= l
        /\ \A rs \in get_all(store) : Len(rs) <= l

\* C24 amended: search, get_recent, get_top and get_by_category return at
\* most `limit` records; get_all takes no limit and returns every record.
C24_LimitedReadsBounded ==
    /\ \A l \in ReadLimits : \A r \in LimitedReads(l) : Len(r.rows) <= l
    /\ \A rs \in get_all(store) : Len(rs) = Len(store.rows)

\* a read with limit 1 has returned one record of a store that holds two
C24_Witness ==
    /\ ret.op \in {"get_recent", "get_top", "get_by_category"}
    /\ ret.ok
    /\ Len(ret.rows) = 1
    /\ Len(store.rows) = 2
    /\ store.rows[1].category = store.rows[2].category

----------------------------------------------------------------------------
(* Properties of the records over a run of all operations (SpecCore). *)

StoredIds(db) == {db.rows[i].id : i \in 1..Len(db.rows)}

\* C22: no step of capture, increment_usage, import, search, get_stats or
\* export removes a record: every id of the store is still in it after the
\* step, and the number of records does not decrease.
C22_NeverDeleted ==
    [][/\ StoredIds(store) \subseteq StoredIds(store')
       /\ Len(store'.rows) >= Len(store.rows)]_vars

\* the store holds two records, one of them imported, and has since been
\* searched, counted or exported
C22_Witness ==
    /\ Len(store.rows) = 2
    /\ ret.op \in {"search", "get_stats", "export", "increment_usage"}
    /\ \E i \in 1..2 : parse_rfc3339(store.rows[i].last_used) > now

\* the fields of a record that are set when it is created
Fixed(row) ==
    [id |-> row.id, command |-> row.command, working_dir |-> row.working_dir,
     timestamp |-> row.timestamp, exit_code |-> row.exit_code,
     duration_ms |-> row.duration_ms, category |-> row.category]

\* C23: a capture (any exit code, any duration) and an import (any
\* strategy, any snapshot) leave command, working_dir, timestamp, exit_code,
\* duration_ms and category of every record of the store as they were.
C23_FixedFieldsKept ==
    /\ \A c \in AnyCaptureCall :
          \A i \in 1..Len(store.rows) :
              Fixed(CaptureResult(c).db.rows[i]) = Fixed(store.rows[i])
    /\ \A json \in AnySnapshot, strategy \in Strategies :
          \A i \in 1..Len(store.rows) :
              Fixed(ImportResult(json, strategy).db.rows[i]) = Fixed(store.rows[i])

\* a record first captured as a failure has been captured again, later
C23_Witness ==
    /\ ret.op = "capture"
    /\ ret.path = "incremented"
    /\ \E i \in 1..Len(store.rows) :
          /\ store.rows[i].exit_code # 0
          /\ store.rows[i].usage_count > 1
          /\ parse_rfc3339(store.rows[i].last_used) > parse_rfc3339(store.rows[i].timestamp)

\* C29: in a run of captures and of imports of snapshots whose records
\* have usage_count >= 1, every record of the store has usage_count >= 1
\* and no step lowers the usage_count of a record.
C29_UsageCountPositive ==
    /\ [](\A i \in 1..Len(store.rows) : store.rows[i].usage_count >= 1)
    /\ [][\A i \in 1..Len(store.rows) :
             store'.rows[i].usage_count >= store.rows[i].usage_count]_vars

\* an imported record and a captured record have both been used again
C29_Witness ==
    /\ Len(store.rows) = 2
    /\ \A i \in 1..2 : store.rows[i].usage_count = MaxUsage
    /\ \E i \in 1..2 : parse_rfc3339(store.rows[i].timestamp) < now
    /\ ret.op = "import"
    /\ ret.stats.updated >= 1

----------------------------------------------------------------------------
(* Properties of sanitize_fts5_query (SpecSanitize). *)

CountQuotes(s) == Cardinality({i \in 1..Len(s) : s[i] = QUOTE})

\* every maximal run of quotes in s has even length
QuotesPaired(s) ==
    \A i \in 1..Len(s) :
        s[i] = QUOTE /\ (i = 1 \/ s[i - 1] # QUOTE) =>
            \E n \in 1..Len(s) :
                /\ n % 2 = 0
                /\ i + n - 1 <= Len(s)
                /\ \A k \in i..(i + n - 1) : s[k] = QUOTE
                /\ i + n > Len(s) \/ s[i + n] # QUOTE

\* s with each pair of quotes made one quote
RECURSIVE Halved(_)
Halved(s) ==
    IF s = <<>> THEN <<>>
    ELSE IF Head(s) = QUOTE /\ Len(s) >= 2 /\ s[2] = QUOTE
    THEN <<QUOTE>> \o Halved(Tail(Tail(s)))
    ELSE <<Head(s)>> \o Halved(Tail(s))

\* C26: sanitize_fts5_query(q) is a quote, q with each quote doubled, and a
\* quote: it starts and ends with a quote, is longer than q by two plus
\* the number of quotes of q, has no unpaired quote inside, and stripping
\* the outer quotes and halving the doubled ones gives q back.
C26_SanitizeQuotes ==
    ret.op = "sanitize_fts5_query" =>
        LET q == ret.stats
            out == ret.rows
            inner == SubSeq(out, 2, Len(out) - 1)
        IN /\ Len(out) = Len(q) + CountQuotes(q) + 2
           /\ out[1] = QUOTE
           /\ out[Len(out)] = QUOTE
           /\ QuotesPaired(inner)
           /\ Halved(inner) = q

\* a phrase with quotes next to each other and at its end has been sanitized
C26_Witness ==
    /\ ret.op = "sanitize_fts5_query"
    /\ ret.stats = <<"l", QUOTE, QUOTE>>
    /\ Len(ret.rows) = 7

SawSome(p) == session[p].pc = "done" /\ session[p].looked.existing # None

SeenRecord(p) == session[p].looked.existing[1]

\* C28: when two sessions have both looked up a pair, both been given the
\* same record with the same usage_count, and both incremented, the
\* record's usage_count is 2 above the one they saw: neither increment is
\* lost.
C28_NoLostIncrement ==
    \A p, q \in Sessions :
        /\ p # q
        /\ SawSome(p)
        /\ SawSome(q)
        /\ SeenRecord(p).id = SeenRecord(q).id
        /\ SeenRecord(p).usage_count = SeenRecord(q).usage_count
        => \A i \in 1..Len(store.rows) :
              store.rows[i].id = SeenRecord(p).id[1] =>
                  store.rows[i].usage_count = SeenRecord(p).usage_count + 2

\* both sessions looked up a pair that had one record with usage_count 1
\* before either incremented, and both have incremented
C28_Witness ==
    /\ \E p, q \in Sessions :
          /\ p # q
          /\ SawSome(p)
          /\ SawSome(q)
          /\ SeenRecord(p) = SeenRecord(q)
          /\ SeenRecord(p).usage_count = 1
          /\ Cardinality(RowsWithKey(store, KeyLooked(p))) = 1
    /\ ret.path = "incremented"

----------------------------------------------------------------------------
(* Properties of imports that fail midway (SpecImportFaults). *)

\* the snapshot cut down to its first n records
FirstRecords(json, n) ==
    [json EXCEPT !.commands = SubSeq(json.commands, 1, n)]

\* C30: when a store call fails at the k-th record of a snapshot, import
\* returns an error and no ImportStats, and the store is left as the
\* records 1..k-1 made it: what a complete import of those records alone
\* gives.
C30_NoRollback ==
    \A json \in AnySnapshot, strategy \in Strategies :
        \A k \in 1..Len(json.commands) :
            json.version # <<>> =>
                LET r == import(store, json, strategy, now, k)
                    done == import(store, FirstRecords(json, k - 1), strategy, now, 0)
                IN /\ ~r.ok
                   /\ r.stats = NoStats
                   /\ done.ok
                   /\ r.db = done.db
                   /\ Len(r.db.rows) = Len(store.rows) + done.stats.imported

\* an import has failed at its second record and the first, inserted
\* before the failure, is in the store
C30_Witness ==
    /\ ret.op = "import"
    /\ ret.path = "failed"
    /\ ~ret.ok
    /\ store.seq = 1
    /\ parse_rfc3339(store.rows[1].last_used) > now

====
